---- MODULE Spec2Model ----
(***************************************************************************)
(* Model of ListVerb.main (colcon_package_information/verb/list.py) for    *)
(* the two graph renderings: the ASCII matrix (--topological-graph) and    *)
(* the DOT graph (--topological-graph-dot).  The plain name/path listing   *)
(* (the final else branch, lines 285-303) is outside the model.            *)
(*                                                                         *)
(* A decorator is a record                                                 *)
(*   name                    descriptor.name                               *)
(*   selected                decorator.selected                            *)
(*   dependencies            descriptor.dependencies: category -> names    *)
(*   recursive_dependencies  decorator.recursive_dependencies              *)
(*   parent                  Path(descriptor.path).parent                  *)
(* and a descriptor is identified by its position in `decorators`.         *)
(***************************************************************************)
EXTENDS Integers, Sequences, FiniteSets, TLC

\* ---------------------------------------------------------------- bounds
MaxNodes == 3
MaxDeps == 3
MaxUnknownDeps == 1
MaxUnselected == 1
MaxClusterDeps == 1

\* ------------------------------------------------------------- constants
Categories == {"build", "run", "test"}
PkgNames == <<"a", "b", "c", "d", "e">>
UnknownName == "x"
None == <<"None">>
NoDensity == 0 - 1

VARIABLES decorators, args, pc, lines, out, empty_cells,
          density_percentage, direct_edges, indirect_edges, nodes, common_path

vars == <<decorators, args, pc, lines, out, empty_cells,
          density_percentage, direct_edges, indirect_edges, nodes, common_path>>

\* ------------------------------------------------------- generic helpers
Max(a, b) == IF a >= b THEN a ELSE b

\* all enumerations (iteration orders) of a finite set
Orders(S) ==
    {f \in [1..Cardinality(S) -> S] : \A p, q \in DOMAIN f : p # q => f[p] # f[q]}

RECURSIVE Spaces(_)
Spaces(n) == IF n <= 0 THEN "" ELSE " " \o Spaces(n - 1)

\* --------------------------------------------- the external collaborators
Names(d) == {d[k].name : k \in DOMAIN d}

\* descriptor.get_dependencies(): the union over all categories
get_dependencies(n) == UNION {n.dependencies[c] : c \in Categories}

\* one round of the run-closure: the run dependencies of every descriptor
\* whose name is in S, restricted to known names
RunStep(d, S) ==
    S \cup {r \in Names(d) :
              \E k \in DOMAIN d : d[k].name \in S /\ r \in d[k].dependencies["run"]}

RECURSIVE RunClosure(_, _)
RunClosure(d, S) ==
    IF RunStep(d, S) = S THEN S ELSE RunClosure(d, RunStep(d, S))

\* descriptor.get_recursive_dependencies(descriptors,
\*     recursive_categories=('run', )): the known direct dependencies of any
\* category, closed under the run dependencies of the descriptors so named
get_recursive_dependencies(d, n) ==
    RunClosure(d, get_dependencies(n) \cap Names(d))


\* ------------------------------------------------------------ the inputs
\* The decorators are what topological_order_packages returns (line 95):
\* every name in a decorator's recursive dependencies is the name of an
\* earlier decorator, and no package lists its own name (get_dependencies
\* rejects it).  Names are drawn up to renaming (the k-th new name is
\* PkgNames[k]); UnknownName is the name of no package.
RECURSIVE KSubsets(_, _)
KSubsets(S, k) ==
    IF k <= 0 \/ S = {} THEN {{}}
    ELSE LET x == CHOOSE y \in S : TRUE
         IN  KSubsets(S \ {x}, k) \cup {T \cup {x} : T \in KSubsets(S \ {x}, k - 1)}

Decls(n) == {<<c, nm>> \in Categories \X (get_dependencies(n)) : nm \in n.dependencies[c]}

RECURSIVE DeclCount(_, _)
DeclCount(d, names) ==
    IF d = <<>> THEN 0
    ELSE Cardinality({p \in Decls(Head(d)) : p[2] \in names}) + DeclCount(Tail(d), names)

Unselected(d) == {k \in DOMAIN d : ~d[k].selected}

NameChoices(d) ==
    {PkgNames[m] : m \in 1..(IF Cardinality(Names(d)) + 1 <= Len(PkgNames)
                             THEN Cardinality(Names(d)) + 1 ELSE Len(PkgNames))}

\* Path(descriptor.path).parent, as its components below the root; every
\* modelled path is absolute
ParentPaths == {<<"ws">>, <<"ws", "src">>}

DefaultParent == <<"ws", "src">>

NewNode(nm, sel, decls) ==
    [name |-> nm, selected |-> sel,
     dependencies |-> [c \in Categories |-> {p[2] : p \in {q \in decls : q[1] = c}}],
     recursive_dependencies |-> {}, parent |-> DefaultParent]

TopologicallyOrdered(d) ==
    \A k \in DOMAIN d :
        /\ d[k].name \notin get_dependencies(d[k])
        /\ get_recursive_dependencies(d, d[k]) \subseteq {d[m].name : m \in 1..(k - 1)}

Extensions(d) ==
    {e \in {Append(d, NewNode(nm, sel, decls)) :
              nm \in NameChoices(d), sel \in BOOLEAN,
              decls \in KSubsets(Categories \X (Names(d) \cup {UnknownName}),
                                 MaxDeps - DeclCount(d, Names(d) \cup {UnknownName}))} :
        /\ Cardinality(Unselected(e)) <= MaxUnselected
        /\ DeclCount(e, {UnknownName}) <= MaxUnknownDeps
        /\ TopologicallyOrdered(e)}

RECURSIVE NodeSetsOfSize(_)
NodeSetsOfSize(n) ==
    IF n = 0 THEN {<<>>} ELSE UNION {Extensions(d) : d \in NodeSetsOfSize(n - 1)}

\* topological_order_packages stores each closure on its decorator
topological_order_packages(d) ==
    [k \in DOMAIN d |->
        [d[k] EXCEPT !.recursive_dependencies = get_recursive_dependencies(d, d[k])]]

NodeSets ==
    {topological_order_packages(d) : d \in UNION {NodeSetsOfSize(n) : n \in 0..MaxNodes}}

\* the options are in a mutually exclusive group (lines 42-65); the options
\* one mode never reads are left at their default in that mode
ArgSets ==
    {a \in [topological_graph : BOOLEAN, topological_graph_dot : BOOLEAN,
            topological_graph_legend : BOOLEAN, topological_graph_density : BOOLEAN,
            topological_graph_dot_cluster : BOOLEAN] :
        /\ a.topological_graph # a.topological_graph_dot
        /\ a.topological_graph => ~a.topological_graph_dot_cluster
        /\ a.topological_graph_dot =>
               ~a.topological_graph_legend /\ ~a.topological_graph_density}

\* the decorators given to one run: the places of the selected packages are
\* read by the clustering only (lines 241-242); they vary when it is
\* requested, over the node sets of at most MaxClusterDeps dependencies
Inputs(a) ==
    IF a.topological_graph_dot_cluster
    THEN {[k \in DOMAIN d |->
             [d[k] EXCEPT !.parent = IF d[k].selected THEN p[k] ELSE DefaultParent]] :
            d \in {e \in NodeSets : DeclCount(e, Names(e) \cup {UnknownName}) <= MaxClusterDeps},
            p \in [1..MaxNodes -> ParentPaths]}
    ELSE NodeSets

\* ------------------------------------------------------- printed lines
\* A line is a record: text is the line up to its matrix cells, cells the
\* symbols appended to a matrix row, src/dst the descriptors a dot line is
\* about (0: none), a/b the identity tokens it shows.
Line(kind, text) ==
    [kind |-> kind, text |-> text, cells |-> <<>>, src |-> 0, dst |-> 0,
     a |-> "", b |-> ""]

Init ==
    /\ args \in ArgSets
    /\ decorators \in Inputs(args)
    /\ pc = "start"
    /\ lines = <<>>
    /\ out = <<>>
    /\ empty_cells = 0
    /\ direct_edges = <<>>
    /\ indirect_edges = <<>>
    /\ nodes = <<>>
    /\ common_path = None
    /\ density_percentage = NoDensity

\* ----------------------------------------------------------- the matrix
\* shown_decorators: the selected decorators in their given order
RECURSIVE SelectedFrom(_, _)
SelectedFrom(d, k) ==
    IF k > Len(d) THEN <<>>
    ELSE (IF d[k].selected THEN <<k>> ELSE <<>>) \o SelectedFrom(d, k + 1)

shown_decorators == SelectedFrom(decorators, 1)

RECURSIVE MaxNameLength(_)
MaxNameLength(s) ==
    IF s = <<>> THEN 0 ELSE Max(Len(decorators[Head(s)].name), MaxNameLength(Tail(s)))

max_length == MaxNameLength(shown_decorators)

ljust(str, width) == str \o Spaces(width - Len(str))

depends(m) == get_dependencies(decorators[shown_decorators[m]])

\* rec_depends with the run dependencies as the first hop too
rec_depends_RunOnly(m) ==
    RunClosure(decorators,
               decorators[shown_decorators[m]].dependencies["run"] \cap Names(decorators))

rec_depends(m) == get_recursive_dependencies(decorators, decorators[shown_decorators[m]])

ShownName(m) == decorators[shown_decorators[m]].name

LegendLines ==
    << Line("legend", "+ marks when the package in this row can be processed"),
       Line("legend", "* marks a direct dependency from the package indicated by the + in the same column to the package in this row"),
       Line("legend", ". marks a transitive dependency"),
       Line("blank", "") >>

\* lines 100-122: the legend and the row labels
MatrixStart ==
    /\ pc = "start"
    /\ args.topological_graph
    /\ out' = IF args.topological_graph_legend THEN out \o LegendLines ELSE out
    /\ lines' = [m \in 1..Len(shown_decorators) |->
                    [Line("row", ljust(ShownName(m), max_length + 2))
                        EXCEPT !.src = shown_decorators[m]]]
    /\ pc' = "matrix"
    /\ UNCHANGED <<decorators, args, empty_cells, density_percentage,
                   direct_edges, indirect_edges, nodes, common_path>>

\* Symbol with the roles of the two packages exchanged
Symbol_Transposed(ii, jj) ==
    IF jj = ii THEN "+"
    ELSE IF ShownName(ii) \in depends(jj) THEN "*"
    ELSE IF ShownName(ii) \in rec_depends(jj) THEN "."
    ELSE " "

\* Symbol with the processed package recognised by its name
Symbol_PlusByName(ii, jj) ==
    IF ShownName(jj) = ShownName(ii) THEN "+"
    ELSE IF ShownName(jj) \in depends(ii) THEN "*"
    ELSE IF ShownName(jj) \in rec_depends(ii) THEN "."
    ELSE " "

\* lines 127-138: the symbol written while package ii is processed, for the
\* line of package jj
Symbol(ii, jj) ==
    IF jj = ii THEN "+"
    ELSE IF ShownName(jj) \in depends(ii) THEN "*"
    ELSE IF ShownName(jj) \in rec_depends(ii) THEN "."
    ELSE " "

\* lines 124-139: the loops; iteration ii of the outer loop appends one
\* symbol to every line, so line jj ends up with the symbols of ii = 1..n
MatrixLoop ==
    /\ pc = "matrix"
    /\ lines' = [jj \in DOMAIN lines |->
                    [lines[jj] EXCEPT
                        !.cells = [ii \in 1..Len(shown_decorators) |-> Symbol(ii, jj)]]]
    /\ empty_cells' = Cardinality({c \in (1..Len(shown_decorators)) \X DOMAIN lines :
                                      Symbol(c[1], c[2]) = " "})
    /\ pc' = "density"
    /\ UNCHANGED <<decorators, args, out, density_percentage, direct_edges,
                   indirect_edges, nodes, common_path>>

\* DensityDivides without the guard
DensityDivides_Always(n) == TRUE

\* line 143: the guard of the division
DensityDivides(n) == n > 1

\* DensityHundredths normalised to 100 %
DensityHundredths_Of100(empty, cells) ==
    (2 * 10000 * (cells - empty) + cells) \div (2 * cells)

\* '%.2f' of 200.0 * (1.0 - empty / cells), as hundredths of a percent
DensityHundredths(empty, cells) ==
    (2 * 20000 * (cells - empty) + cells) \div (2 * cells)

TwoDigits(n) == IF n < 10 THEN "0" \o ToString(n) ELSE ToString(n)

DensityLine(h) ==
    Line("density", "dependency density " \o ToString(h \div 100) \o "."
                    \o TwoDigits(h % 100) \o " %")

\* lines 140-147: the density is printed when the loop is over; a division
\* by zero raises ZeroDivisionError
MatrixDensity ==
    /\ pc = "density"
    /\ LET n == Len(lines)
           cells == n * (n - 1)
           h == IF DensityDivides(n) THEN DensityHundredths(empty_cells, cells) ELSE 0
       IN  IF ~args.topological_graph_density
           THEN pc' = "print" /\ out' = out /\ UNCHANGED density_percentage
           ELSE IF DensityDivides(n) /\ cells = 0
           THEN pc' = "error" /\ out' = out /\ UNCHANGED density_percentage
           ELSE /\ pc' = "print"
                /\ density_percentage' = h
                /\ out' = out \o <<DensityLine(h), Line("blank", "")>>
    /\ UNCHANGED <<decorators, args, lines, empty_cells, direct_edges,
                   indirect_edges, nodes, common_path>>

\* PrintLines with the lines ahead of what was printed before
PrintLines_First ==
    /\ pc = "print"
    /\ out' = lines \o out
    /\ pc' = "done"
    /\ UNCHANGED <<decorators, args, lines, empty_cells, density_percentage,
                   direct_edges, indirect_edges, nodes, common_path>>

\* lines 305-306
PrintLines ==
    /\ pc = "print"
    /\ out' = out \o lines
    /\ pc' = "done"
    /\ UNCHANGED <<decorators, args, lines, empty_cells, density_percentage,
                   direct_edges, indirect_edges, nodes, common_path>>

\* ------------------------------------------------------------ the graph
\* lines 152-154
decorators_by_name(nm) == {k \in DOMAIN decorators : decorators[k].name = nm}

Selected == {k \in DOMAIN decorators : decorators[k].selected}

\* lines 156-160
selected_pkg_names == {decorators[k].name : k \in Selected}

has_duplicate_names == Cardinality(Selected) # Cardinality(selected_pkg_names)

\* reversed(decorators), the selected ones
RECURSIVE ReversedSelected(_)
ReversedSelected(k) ==
    IF k < 1 THEN <<>>
    ELSE (IF decorators[k].selected THEN <<k>> ELSE <<>>) \o ReversedSelected(k - 1)

\* lines 150-167: the first line, and the selected descriptors with their
\* parent path
DotSetup ==
    /\ pc = "start"
    /\ args.topological_graph_dot
    /\ lines' = <<Line("open", "digraph graphname {")>>
    /\ nodes' = [m \in DOMAIN ReversedSelected(Len(decorators)) |->
                    [desc |-> ReversedSelected(Len(decorators))[m],
                     path |-> decorators[ReversedSelected(Len(decorators))[m]].parent]]
    /\ pc' = "direct"
    /\ UNCHANGED <<decorators, args, out, empty_cells, density_percentage,
                   direct_edges, indirect_edges, common_path>>

\* lines 175-183: the categories under which descriptor k names dep
DirectCategories(k, dep) ==
    {c \in Categories : dep \in decorators[k].dependencies[c]}

\* lines 169-183: (descriptor, name) -> categories
CollectDirect ==
    [key \in {e \in Selected \X selected_pkg_names : DirectCategories(e[1], e[2]) # {}}
        |-> DirectCategories(key[1], key[2])]

DotDirect ==
    /\ pc = "direct"
    /\ direct_edges' = CollectDirect
    /\ pc' = "indirect"
    /\ UNCHANGED <<decorators, args, lines, out, empty_cells, density_percentage,
                   indirect_edges, nodes, common_path>>

\* RedundantToDirect without the test
RedundantToDirect_Never(direct, k, rdep) == FALSE

\* line 208: an edge redundant to a direct edge is skipped
RedundantToDirect(direct, k, rdep) == <<k, rdep>> \in DOMAIN direct

\* IndirectCategories without the test of line 195
IndirectCategories_ThroughSelected(direct, k, rdep) ==
    {c \in Categories :
        \E dep \in decorators[k].dependencies[c] :
            /\ decorators_by_name(dep) # {}
            /\ \E m \in decorators_by_name(dep) :
                   rdep \in decorators[m].recursive_dependencies
            /\ rdep \in selected_pkg_names
            /\ <<k, rdep>> \notin DOMAIN direct}

\* lines 191-211: the categories under which descriptor k names a package
\* that is not selected, is known, and has rdep among the recursive
\* dependencies of one of the decorators of its name
IndirectCategories(direct, k, rdep) ==
    {c \in Categories :
        \E dep \in decorators[k].dependencies[c] :
            /\ dep \notin selected_pkg_names
            /\ decorators_by_name(dep) # {}
            /\ \E m \in decorators_by_name(dep) :
                   rdep \in decorators[m].recursive_dependencies
            /\ rdep \in selected_pkg_names
            /\ ~RedundantToDirect(direct, k, rdep)}

\* lines 185-211: (descriptor, name) -> categories
CollectIndirect(direct) ==
    [key \in {e \in Selected \X selected_pkg_names :
                 IndirectCategories(direct, e[1], e[2]) # {}}
        |-> IndirectCategories(direct, key[1], key[2])]

DotIndirect ==
    /\ pc = "indirect"
    /\ indirect_edges' = CollectIndirect(direct_edges)
    /\ pc' = "commonpath"
    /\ UNCHANGED <<decorators, args, lines, out, empty_cells, density_percentage,
                   direct_edges, nodes, common_path>>

\* os.path.commonpath of absolute paths: the longest common leading run of
\* components
RECURSIVE CommonPrefix(_, _)
CommonPrefix(p, q) ==
    IF p = <<>> \/ q = <<>> \/ Head(p) # Head(q) THEN <<>>
    ELSE <<Head(p)>> \o CommonPrefix(Tail(p), Tail(q))

RECURSIVE commonpath(_)
commonpath(ps) ==
    IF Len(ps) = 1 THEN ps[1] ELSE CommonPrefix(Head(ps), commonpath(Tail(ps)))

\* lines 213-218: commonpath raises ValueError for an empty sequence
DotCommonPath ==
    /\ pc = "commonpath"
    /\ common_path' = IF nodes = <<>> THEN None
                      ELSE commonpath([m \in DOMAIN nodes |-> nodes[m].path])
    /\ pc' = "nodes"
    /\ UNCHANGED <<decorators, args, lines, out, empty_cells, density_percentage,
                   direct_edges, indirect_edges, nodes>>

\* id(descriptor): an integer unique to the object, here its position
id(k) == k

\* get_node_data that never appends the id
get_node_data_PlainName(k) == <<decorators[k].name, "">>

\* lines 220-230: <<node_name, attributes>>
get_node_data(k) ==
    IF ~has_duplicate_names
    THEN <<decorators[k].name, "">>
    ELSE <<decorators[k].name \o "_" \o ToString(id(k)),
           " [label = \"" \o decorators[k].name \o "\"]">>

NodeLine(indent, k) ==
    [Line("node", indent \o "\"" \o get_node_data(k)[1] \o "\""
                  \o get_node_data(k)[2] \o ";")
        EXCEPT !.src = k, !.a = get_node_data(k)[1], !.b = get_node_data(k)[2]]

\* line 232
Unclustered == ~args.topological_graph_dot_cluster \/ common_path = None

\* lines 232-237
DotOutputNodes ==
    /\ pc = "nodes"
    /\ Unclustered
    /\ lines' = lines \o [m \in DOMAIN nodes |-> NodeLine("  ", nodes[m].desc)]
    /\ pc' = "edges"
    /\ UNCHANGED <<decorators, args, out, empty_cells, density_percentage,
                   direct_edges, indirect_edges, nodes, common_path>>

\* path.relative_to(common_path)
relative_to(path, common) == SubSeq(path, Len(common) + 1, Len(path))

RECURSIVE PathStr(_)
PathStr(p) ==
    IF p = <<>> THEN "."
    ELSE IF Len(p) = 1 THEN p[1] ELSE p[1] \o "/" \o PathStr(Tail(p))

\* the keys of clusters in the order of their insertion (lines 240-242)
RECURSIVE ClusterKeys(_, _)
ClusterKeys(m, seen) ==
    IF m > Len(nodes) THEN <<>>
    ELSE LET key == relative_to(nodes[m].path, common_path)
         IN  IF key \in seen THEN ClusterKeys(m + 1, seen)
             ELSE <<key>> \o ClusterKeys(m + 1, seen \cup {key})

ClusterMembers(key) ==
    {nodes[m].desc : m \in {n \in DOMAIN nodes :
                              relative_to(nodes[n].path, common_path) = key}}

\* the elements of S in the order they have in the sequence ord
Induced(ord, S) == LET Keep(x) == x \in S IN SelectSeq(ord, Keep)

\* lines 243-260 for the clusters keys[n..]; ord is the order in which the
\* sets of descriptors are iterated
RECURSIVE ClusterLines(_, _, _)
ClusterLines(keys, n, ord) ==
    IF n > Len(keys) THEN <<>>
    ELSE LET path == keys[n]
             descs == Induced(ord, ClusterMembers(path))
             wrapped == path # <<>>
             indent == IF wrapped THEN "    " ELSE "  "
         IN  (IF wrapped
              THEN <<Line("subgraph", "  subgraph cluster_" \o ToString(n - 1) \o " {"),
                     Line("label", "    label = \"" \o PathStr(path) \o "\";")>>
              ELSE <<>>)
             \o [m \in DOMAIN descs |-> NodeLine(indent, descs[m])]
             \o (IF wrapped THEN <<Line("end", "  }")>> ELSE <<>>)
             \o ClusterLines(keys, n + 1, ord)

\* lines 238-260
DotOutputClusters ==
    /\ pc = "nodes"
    /\ ~Unclustered
    /\ \E ord \in Orders(Selected) :
           lines' = lines \o ClusterLines(ClusterKeys(1, {}), 1, ord)
    /\ pc' = "edges"
    /\ UNCHANGED <<decorators, args, out, empty_cells, density_percentage,
                   direct_edges, indirect_edges, nodes, common_path>>

\* lines 263-275
Colors(categories) ==
    LET blue == IF "build" \in categories THEN <<"blue">> ELSE <<>>
        red == IF "run" \in categories THEN <<"red">> ELSE <<>>
        tan == IF "test" \in categories THEN <<"tan">> ELSE <<>>
        cs == blue \o red \o tan
    IN  IF cs = <<>> THEN ""
        ELSE IF Len(cs) = 1 THEN cs[1]
        ELSE IF Len(cs) = 2 THEN cs[1] \o ":" \o cs[2]
        ELSE cs[1] \o ":" \o cs[2] \o ":" \o cs[3]

\* line 277: the decorators an edge to the name node_end is drawn to
EdgeTargets(node_end) == decorators_by_name(node_end)

EdgeLine(desc_start, deco, colors, style) ==
    [Line("edge", "  \"" \o get_node_data(desc_start)[1] \o "\" -> \""
                  \o get_node_data(deco)[1] \o "\" [color=\"" \o colors \o "\""
                  \o style \o "];")
        EXCEPT !.src = desc_start, !.dst = deco,
               !.a = get_node_data(desc_start)[1], !.b = get_node_data(deco)[1]]

\* the orders in which the keys of a dictionary of edges can have been
\* inserted: the descriptors in reversed order (lines 171, 187)
KeyOrders(edges) ==
    {ks \in Orders(DOMAIN edges) :
        \A p, q \in DOMAIN ks : p < q => ks[p][1] >= ks[q][1]}

\* lines 272-281 for the keys ks[n..]
RECURSIVE EdgeLines(_, _, _, _, _)
EdgeLines(edges, ks, n, style, ord) ==
    IF n > Len(ks) THEN <<>>
    ELSE LET decos == Induced(ord, EdgeTargets(ks[n][2]))
         IN  [m \in DOMAIN decos |->
                 EdgeLine(ks[n][1], decos[m], Colors(edges[ks[n]]), style)]
             \o EdgeLines(edges, ks, n + 1, style, ord)

\* lines 262-283: the direct edges, the indirect edges dashed, the last line
DotOutputEdges ==
    /\ pc = "edges"
    /\ \E dk \in KeyOrders(direct_edges), ik \in KeyOrders(indirect_edges),
          ord \in Orders(DOMAIN decorators) :
           lines' = lines
                    \o EdgeLines(direct_edges, dk, 1, "", ord)
                    \o EdgeLines(indirect_edges, ik, 1, ", style=\"dashed\"", ord)
                    \o <<Line("close", "}")>>
    /\ pc' = "print"
    /\ UNCHANGED <<decorators, args, out, empty_cells, density_percentage,
                   direct_edges, indirect_edges, nodes, common_path>>

Next ==
    \/ MatrixStart
    \/ MatrixLoop
    \/ MatrixDensity
    \/ DotSetup
    \/ DotDirect
    \/ DotIndirect
    \/ DotCommonPath
    \/ DotOutputNodes
    \/ DotOutputClusters
    \/ DotOutputEdges
    \/ PrintLines

Spec == Init /\ [][Next]_vars

\* ================================================================ claims
Declares(k, nm) == \E c \in Categories : nm \in decorators[k].dependencies[c]

SelectedName(nm) == \E k \in Selected : decorators[k].name = nm

\* the matrix is complete
MatrixDone == args.topological_graph /\ pc \in {"density", "print", "done"}

\* the m-th selected decorator, in the given order
ShownNode(m) == shown_decorators[m]

Rows == 1..Cardinality(Selected)

\* the cell at row r, column c of the matrix
Cell(r, c) == lines[r].cells[c]

\* C1 (as stated): for distinct i, j the symbol at row i, column j is `*`
\* exactly when node i directly depends on node j.
C1_RowDependsOnColumn ==
    MatrixDone =>
        \A r, c \in Rows :
            r # c => (Cell(r, c) = "*" <=> Declares(ShownNode(r), decorators[ShownNode(c)].name))

\* C1 (amended): for distinct i, j the symbol at row i, column j is `*`
\* exactly when node j (the column) directly depends on node i (the row),
\* as the legend says.
C1_ColumnDependsOnRow ==
    MatrixDone =>
        \A r, c \in Rows :
            r # c => (Cell(r, c) = "*" <=> Declares(ShownNode(c), decorators[ShownNode(r)].name))

\* a complete matrix with a `*` whose transposed cell is empty
C1_Witness ==
    /\ MatrixDone
    /\ \E r, c \in Rows : r # c /\ Cell(r, c) = "*" /\ Cell(c, r) = " "

\* the symbol the matrix shows for the relation of the depending selected
\* node s to the selected node t (s, t: positions among the selected nodes)
Relation(s, t) == Cell(t, s)

\* C2 (as stated): the matrix marks the relation of s to t with `.` if and
\* only if the indirect edge collector yields an indirect edge (s, name of t).
C2_DotIffIndirectEdge ==
    MatrixDone =>
        \A s, t \in Rows :
            s # t =>
                (Relation(s, t) = "."
                    <=> <<ShownNode(s), decorators[ShownNode(t)].name>>
                            \in DOMAIN CollectIndirect(CollectDirect))

\* C2 (amended): the matrix marks the relation of s to t with `.` if and
\* only if t's name is among the recursive dependencies precomputed for s
\* and s declares no dependency on t's name.
C2_DotIffRecursiveDependency ==
    MatrixDone =>
        \A s, t \in Rows :
            s # t =>
                (Relation(s, t) = "."
                    <=> /\ decorators[ShownNode(t)].name
                               \in decorators[ShownNode(s)].recursive_dependencies
                        /\ ~Declares(ShownNode(s), decorators[ShownNode(t)].name))

\* a `.` for a dependency reached through a selected node only: every
\* package is selected and no two share a name
C2_Witness ==
    /\ MatrixDone
    /\ Unselected(decorators) = {}
    /\ Cardinality(Names(decorators)) = Len(decorators)
    /\ \E s, t \in Rows : s # t /\ Relation(s, t) = "."

\* the indirect edges are collected
IndirectDone ==
    args.topological_graph_dot /\ pc \in {"commonpath", "nodes", "edges", "print", "done"}

\* C3: category c is on the indirect edge (s, t) exactly when s declares
\* under c a name d that is not selected, is known, has t among the
\* recursive dependencies of a decorator named d, and s declares no
\* dependency on t; no edge of either set names an unknown package.
C3_IndirectCategories ==
    IndirectDone =>
        /\ \A s \in Selected, t \in selected_pkg_names, c \in Categories :
               (<<s, t>> \in DOMAIN indirect_edges /\ c \in indirect_edges[<<s, t>>])
                   <=> /\ \E d \in decorators[s].dependencies[c] :
                              /\ ~SelectedName(d)
                              /\ \E m \in DOMAIN decorators :
                                     /\ decorators[m].name = d
                                     /\ t \in decorators[m].recursive_dependencies
                       /\ ~Declares(s, t)
        /\ \A key \in DOMAIN direct_edges \cup DOMAIN indirect_edges :
               key[1] \in Selected /\ SelectedName(key[2])
        /\ \A key \in DOMAIN indirect_edges : indirect_edges[key] # {}

\* an indirect edge that carries the category build of its first hop only,
\* from a descriptor that also names an unknown package
C3_Witness ==
    /\ IndirectDone
    /\ \E key \in DOMAIN indirect_edges :
           /\ indirect_edges[key] = {"build"}
           /\ Declares(key[1], UnknownName)

\* C4: no (descriptor, name) pair is a key of both edge sets, and the matrix
\* shows no `.` for a pair with a direct dependency.
C4_DirectSuppressesIndirect ==
    /\ DOMAIN direct_edges \cap DOMAIN indirect_edges = {}
    /\ MatrixDone =>
           \A s, t \in Rows :
               (s # t /\ Declares(ShownNode(s), decorators[ShownNode(t)].name))
                   => Relation(s, t) # "."

\* a direct edge (s, t) where s also names an unselected package that leads
\* to t
C4_Witness ==
    /\ IndirectDone
    /\ \E key \in DOMAIN direct_edges :
           \E c \in Categories : \E d \in decorators[key[1]].dependencies[c] :
               /\ ~SelectedName(d)
               /\ \E m \in DOMAIN decorators :
                      /\ decorators[m].name = d
                      /\ key[2] \in decorators[m].recursive_dependencies

\* the node declarations are in lines
NodesDone == args.topological_graph_dot /\ pc \in {"edges", "print", "done"}

\* the edges are in lines as well
EdgesDone == args.topological_graph_dot /\ pc \in {"print", "done"}

LinesOfKind(kind) == {m \in DOMAIN lines : lines[m].kind = kind}

Declarations(k) == {m \in LinesOfKind("node") : lines[m].src = k}

\* C5: without duplicate selected names every token is the plain name and
\* has no label; with one, every token is <name>_<id> with a label of the
\* name; distinct selected descriptors have distinct tokens, and an edge
\* shows for a selected descriptor the token of its declaration.
C5_IdentityTokens ==
    /\ NodesDone =>
        /\ \A k \in Selected : Cardinality(Declarations(k)) = 1
        /\ \A m \in LinesOfKind("node") :
               /\ lines[m].src \in Selected
               /\ IF Cardinality(selected_pkg_names) = Cardinality(Selected)
                  THEN /\ lines[m].a = decorators[lines[m].src].name
                       /\ lines[m].b = ""
                  ELSE /\ lines[m].a = decorators[lines[m].src].name \o "_"
                                           \o ToString(lines[m].src)
                       /\ lines[m].b = " [label = \"" \o decorators[lines[m].src].name
                                           \o "\"]"
        /\ \A m, n \in LinesOfKind("node") :
               lines[m].src # lines[n].src => lines[m].a # lines[n].a
    /\ EdgesDone =>
        \A e \in LinesOfKind("edge") :
            /\ \A m \in Declarations(lines[e].src) : lines[e].a = lines[m].a
            /\ \A m \in Declarations(lines[e].dst) : lines[e].b = lines[m].a

\* the graph of a set with a duplicate selected name and an edge between
\* two selected descriptors
C5_Witness ==
    /\ EdgesDone
    /\ Cardinality(selected_pkg_names) < Cardinality(Selected)
    /\ \E e \in LinesOfKind("edge") : lines[e].dst \in Selected

Printed(kind) == {m \in DOMAIN out : out[m].kind = kind}

\* C6 (as stated): with show-density, every matrix row precedes the density
\* line in the output.
C6_RowsBeforeDensity ==
    (pc = "done" /\ args.topological_graph /\ args.topological_graph_density) =>
        \A r \in Printed("row"), d \in Printed("density") : r < d

\* C6 (amended): with show-density, the density line and the empty line
\* after it precede every matrix row in the output.
C6_DensityBeforeRows ==
    (pc = "done" /\ args.topological_graph /\ args.topological_graph_density) =>
        /\ Cardinality(Printed("density")) = 1
        /\ Cardinality(Printed("row")) = Cardinality(Selected)
        /\ \A r \in Printed("row"), d \in Printed("density") :
               d < r /\ out[d + 1].kind = "blank" /\ d + 1 < r

\* the output of a matrix of two or more rows with its density
C6_Witness ==
    /\ pc = "done"
    /\ args.topological_graph_density
    /\ Cardinality(Printed("row")) >= 2
    /\ Printed("density") # {}

\* every two distinct selected nodes are related in exactly one direction
FullyDense ==
    \A r, c \in Rows : r # c => ((Cell(r, c) = " ") # (Cell(c, r) = " "))

\* C7: empty never exceeds n * (n - 1); the density (in hundredths of a
\* percent) lies in [0, 200]; it is 0 for n <= 1 and exactly 100 for a
\* fully dense set of n >= 2.
C7_Density ==
    /\ MatrixDone => empty_cells <= Cardinality(Rows) * (Cardinality(Rows) - 1)
    /\ (args.topological_graph /\ pc \in {"print", "done"}
           /\ args.topological_graph_density) =>
        /\ density_percentage >= 0 /\ density_percentage <= 20000
        /\ Cardinality(Rows) <= 1 => density_percentage = 0
        /\ (Cardinality(Rows) >= 2 /\ FullyDense) => density_percentage = 10000
        /\ \E d \in Printed("density") :
               out[d].text = "dependency density "
                                \o ToString(density_percentage \div 100) \o "."
                                \o (IF density_percentage % 100 < 10 THEN "0" ELSE "")
                                \o ToString(density_percentage % 100) \o " %"

\* the density of a fully dense set of three
C7_Witness ==
    /\ pc = "done"
    /\ args.topological_graph /\ args.topological_graph_density
    /\ Cardinality(Rows) = 3
    /\ FullyDense
    /\ density_percentage = 10000

C9_EmptySelection ==
    Selected = {} =>
        /\ pc # "error"
        /\ pc # "done" => ENABLED Next
        /\ (pc = "done" /\ args.topological_graph) =>
               /\ Printed("row") = {}
               /\ args.topological_graph_density =>
                      /\ density_percentage = 0
                      /\ \E d \in Printed("density") :
                             out[d].text = "dependency density 0.00 %"
        /\ (args.topological_graph_dot /\ pc \in {"nodes", "edges", "print", "done"}) =>
               common_path = None
        /\ (pc = "done" /\ args.topological_graph_dot) =>
               [m \in DOMAIN out |-> out[m].text] = <<"digraph graphname {", "}">>

\* the graph of a set without selected node, clustering requested
C9_Witness ==
    /\ Selected = {}
    /\ decorators # <<>>
    /\ pc = "done"
    /\ args.topological_graph_dot_cluster
    /\ Len(out) = 2

\* C10 (as stated): every edge line connects two declared nodes and no
\* edge line appears twice.
C10_EdgesBetweenDeclaredNodes ==
    EdgesDone =>
        /\ \A e \in LinesOfKind("edge") :
               /\ \E m \in LinesOfKind("node") : lines[m].a = lines[e].a
               /\ \E m \in LinesOfKind("node") : lines[m].a = lines[e].b
        /\ \A e, f \in LinesOfKind("edge") : e # f => lines[e].text # lines[f].text
====
